---- MODULE Spec2Model ----
(***************************************************************************)
(* A model of landslide's Generator (src/src/landslide/generator.py):      *)
(* the numbering pass and table of contents, the macro stage, the          *)
(* constructor's destination handling and the source walker.               *)
(*                                                                         *)
(* Conventions.  A Python value that may be None is a sequence of length   *)
(* at most one: <<>> is None, <<v>> is v.  A Python list is a sequence.    *)
(* A method is an operator from the object (a record `self`) and its       *)
(* arguments to a record [self, exc, ret]: the object afterwards, the      *)
(* exception raised ("none" when it returns) and the value returned.       *)
(* Dicts shared by reference (the TOC entries) are addressed by their      *)
(* position in self.__toc; a list of entries is a sequence of positions.   *)
(***************************************************************************)
EXTENDS Integers, Sequences, FiniteSets, TLC

VARIABLES
    gen,         \* the Generator's num_slides and __toc
    arg_slides,  \* the list last passed to get_template_vars, as passed
    slides,      \* the same list after the call (records are numbered in place)
    bundle,      \* what the last get_template_vars returned (<<>>: nothing)
    exc,         \* the exception the last operation raised, "none" if it returned
    ops,         \* the last two operations, oldest first
    prev,        \* gen before the last operation
    first_read,  \* the first read of toc since the last recording (<<>>: none yet)
    last_read,   \* the latest later read of toc since the last recording
    macros,      \* self.macros: the registered macro classes, in order
    logger,      \* self.logger: "none", "callable" or "invalid" (set, not callable)
    verbose,     \* self.verbose
    m_in,        \* the content last passed to process_macros
    m_out,       \* what the last process_macros produced: [exc, content, classes]
    kwargs,      \* the keyword arguments and source of the last construction
    built,       \* the Generator that construction left: [exc, destination_file, ...]
    fetched,     \* whether fetch_contents has been reached
    fs,          \* the source tree: directory path -> its entries in native order
    walk_src,    \* the source last passed to fetch_contents
    walk_out     \* what the last fetch_contents produced: [exc, slides]

tocVars   == <<gen, arg_slides, slides, bundle, exc, ops, prev, first_read, last_read>>
macroVars == <<macros, m_in, m_out>>
logVars   == <<logger, verbose>>
initVars  == <<kwargs, built, fetched>>
walkVars  == <<fs, walk_src, walk_out>>
vars      == <<tocVars, macroVars, logVars, initVars, walkVars>>

notToc   == <<macroVars, logVars, initVars, walkVars>>
notMacro == <<tocVars, initVars, walkVars>>
notCtor  == <<tocVars, macroVars, walkVars>>
notWalk  == <<tocVars, macroVars, logVars, initVars>>

----------------------------------------------------------------------------
(* Bounds of the model.                                                    *)
MaxSlides == 3      \* slides numbered by one Generator
MaxLevel  == 3      \* deepest level passed to add_toc_entry directly
MaxToc    == 5      \* entries recorded through add_toc_entry directly

TOC_MAX_LEVEL == 2

Titles == {"A"}
Placeholder == "Untitled Presentation"

Max(a, b) == IF a > b THEN a ELSE b
Last(s) == s[Len(s)]

----------------------------------------------------------------------------
(* Generator.__init__, the two fields the TOC and the numbering use.       *)
Gen0 == [num_slides |-> 0, toc |-> <<>>]

(* add_toc_entry: a new dict {title, number, level}, without a 'sub' key.  *)
add_toc_entry(self, title, level, slide_number) ==
    [self EXCEPT !.toc = Append(@, [title |-> title, number |-> slide_number,
                                    level |-> level, hasSub |-> FALSE,
                                    sub |-> <<>>])]

(* entry['sub'] = []                                                       *)
ResetSubKeep(toc, i) ==
    IF toc[i].hasSub THEN toc ELSE [toc EXCEPT ![i].sub = <<>>, ![i].hasSub = TRUE]

ResetSub(toc, i) == [toc EXCEPT ![i].sub = <<>>, ![i].hasSub = TRUE]

(* The list a stack slot refers to: 0 is the local `toc`, j > 0 is the     *)
(* 'sub' list of entry j.                                                  *)
ListOf(st, id) == IF id = 0 THEN st.root ELSE st.toc[id].sub

(* while entry['level'] < len(stack): stack.pop()                          *)
PopLoop(stack, level) ==
    IF level < Len(stack) THEN SubSeq(stack, 1, Max(level, 0)) ELSE stack

(* while entry['level'] > len(stack): stack.append(stack[-1][-1]['sub'])   *)
(* stack[-1] and stack[-1][-1] raise IndexError on an empty list.          *)
RECURSIVE PushLoop(_, _)
PushLoop(st, level) ==
    IF level > Len(st.stack)
    THEN IF Len(st.stack) = 0 \/ Len(ListOf(st, Last(st.stack))) = 0
         THEN [st EXCEPT !.exc = "IndexError"]
         ELSE PushLoop([st EXCEPT !.stack =
                           Append(@, Last(ListOf(st, Last(st.stack))))], level)
    ELSE st

(* stack[-1].append(entry)                                                 *)
AppendEntry(st, i) ==
    IF Len(st.stack) = 0 THEN [st EXCEPT !.exc = "IndexError"]
    ELSE IF Last(st.stack) = 0 THEN [st EXCEPT !.root = Append(@, i)]
    ELSE [st EXCEPT !.toc[Last(st.stack)].sub = Append(@, i)]

(* One iteration of get_toc's loop, for the entry at position i.           *)
TocStep(st, i) ==
    LET s1 == [st EXCEPT !.toc = ResetSub(st.toc, i)]
        s2 == [s1 EXCEPT !.stack = PopLoop(s1.stack, s1.toc[i].level)]
        s3 == PushLoop(s2, s2.toc[i].level)
    IN  IF s3.exc # "none" THEN s3 ELSE AppendEntry(s3, i)

RECURSIVE TocLoop(_, _)
TocLoop(st, i) ==
    IF i > Len(st.toc) \/ st.exc # "none" THEN st
    ELSE TocLoop(TocStep(st, i), i + 1)

(* get_toc: the tree is rebuilt on every call; the entries' 'sub' lists    *)
(* are replaced in place, also when the build raises half way.             *)
get_toc(self) ==
    LET st == TocLoop([root |-> <<>>, toc |-> self.toc, stack |-> <<0>>,
                       exc |-> "none"], 1)
    IN  [self |-> [self EXCEPT !.toc = st.toc], exc |-> st.exc,
         ret |-> IF st.exc = "none" THEN st.root ELSE <<>>]

(* set_toc: raise ValueError("toc is read-only")                           *)
set_toc(self, value) == [self |-> self, exc |-> "ValueError", ret |-> <<>>]

(* The value of a list of entries as Python would print it: each entry     *)
(* with the entries of its 'sub' list, recursively.                        *)
RECURSIVE Expand(_, _)
Expand(refs, toc) ==
    [k \in 1..Len(refs) |->
        [title |-> toc[refs[k]].title, number |-> toc[refs[k]].number,
         level |-> toc[refs[k]].level, sub |-> Expand(toc[refs[k]].sub, toc)]]

(* The positions of the entries of a tree, parents before children.        *)
RECURSIVE Preorder(_, _)
Preorder(refs, toc) ==
    IF refs = <<>> THEN <<>>
    ELSE <<refs[1]>> \o Preorder(toc[refs[1]].sub, toc) \o Preorder(Tail(refs), toc)

----------------------------------------------------------------------------
(* The numbering pass.  A slide is <<>> (get_slide_vars returned None) or  *)
(* <<r>> with r the record's title, level and number; a fragment without   *)
(* a heading has neither title nor level (get_slide_vars, lines 296-303).  *)
SlideVals ==
    {<<>>} \cup {<<[title |-> <<>>, level |-> <<>>, number |-> <<>>]>>}
           \cup {<<[title |-> <<t>>, level |-> <<l>>, number |-> <<>>]>> :
                   t \in Titles, l \in 1..(TOC_MAX_LEVEL + 1)}

SlideSeqs == UNION {[1..n -> SlideVals] : n \in 0..MaxSlides}

(* str() of a non-negative integer: its decimal digits, most significant   *)
(* first (a digit is the number it stands for).                            *)
RECURSIVE Str(_)
Str(n) == IF n < 10 THEN <<n>> ELSE Str(n \div 10) \o <<n % 10>>

(* try: head_title = slides[0]['title']                                    *)
(* except (IndexError, TypeError): head_title = "Untitled Presentation"    *)
HeadTitle(sl) ==
    IF Len(sl) = 0 THEN <<Placeholder>>          \* IndexError
    ELSE IF sl[1] = <<>> THEN <<Placeholder>>    \* TypeError: None[...]
    ELSE sl[1][1].title

(* self.num_slides += 1; slide_number = slide_vars['number'] = ...         *)
AssignNumberZeroBased(self) ==
    [self |-> [self EXCEPT !.num_slides = @ + 1], n |-> self.num_slides]

AssignNumber(self) ==
    [self |-> [self EXCEPT !.num_slides = @ + 1], n |-> self.num_slides + 1]

(* if slide_vars['level'] and slide_vars['level'] <= TOC_MAX_LEVEL         *)
TocEligible(level) == level # <<>> /\ level[1] # 0 /\ level[1] <= TOC_MAX_LEVEL

(* One iteration of the loop of get_template_vars, for slides[i].          *)
NumberStep(st, i) ==
    IF st.slides[i] = <<>> THEN st
    ELSE LET a == AssignNumber(st.self)
             r == st.slides[i][1]
         IN  [self |-> IF TocEligible(r.level)
                       THEN add_toc_entry(a.self, r.title, r.level[1], a.n)
                       ELSE a.self,
              slides |-> [st.slides EXCEPT ![i] = <<[r EXCEPT !.number = <<a.n>>]>>]]

RECURSIVE NumberLoop(_, _)
NumberLoop(st, i) ==
    IF i > Len(st.slides) THEN st ELSE NumberLoop(NumberStep(st, i), i + 1)

(* get_template_vars: head title, numbering, then the bundle, whose 'toc'  *)
(* is a read of the toc property.  The css and js of the theme are read    *)
(* from files that are taken to exist.                                     *)
get_template_vars(self, sl) ==
    LET head == HeadTitle(sl)
        st   == NumberLoop([self |-> self, slides |-> sl], 1)
        t    == get_toc(st.self)
    IN  [self |-> t.self, slides |-> st.slides, exc |-> t.exc, read |-> t,
         ret |-> IF t.exc # "none" THEN <<>>
                 ELSE <<[head_title |-> head,
                         num_slides |-> Str(t.self.num_slides),
                         toc |-> Expand(t.ret, t.self.toc)]>>]

----------------------------------------------------------------------------
(* What a read of toc produced: the exception, the list returned and its   *)
(* value at the time.                                                      *)
ReadOutcome(t) ==
    [exc |-> t.exc, root |-> t.ret,
     value |-> IF t.exc = "none" THEN Expand(t.ret, t.self.toc) ELSE <<>>]

NoteRead(t, recorded) ==
    IF recorded \/ first_read = <<>>
    THEN first_read' = <<ReadOutcome(t)>> /\ last_read' = <<>>
    ELSE first_read' = first_read /\ last_read' = <<ReadOutcome(t)>>

Did(name) == ops' = <<ops[2], name>>

(* generator.get_template_vars(slides)                                     *)
GetTemplateVars ==
    \E sl \in SlideSeqs :
        /\ gen.num_slides + Len(sl) <= MaxSlides
        /\ LET r == get_template_vars(gen, sl)
           IN  /\ gen' = r.self /\ slides' = r.slides /\ bundle' = r.ret
               /\ exc' = r.exc
               /\ NoteRead(r.read, Len(r.self.toc) # Len(gen.toc))
        /\ arg_slides' = sl /\ prev' = gen /\ Did("get_template_vars")
        /\ UNCHANGED notToc

(* generator.add_toc_entry(title, level, slide_number)                     *)
AddTocEntry ==
    \E l \in 1..MaxLevel :
        /\ Len(gen.toc) < MaxToc
        /\ gen' = add_toc_entry(gen, <<"T">>, l, Len(gen.toc) + 1)
        /\ exc' = "none" /\ prev' = gen /\ Did("add_toc_entry")
        /\ first_read' = <<>> /\ last_read' = <<>>
        /\ UNCHANGED <<arg_slides, slides, bundle, notToc>>

(* generator.toc                                                           *)
ReadToc ==
    /\ LET t == get_toc(gen)
       IN  gen' = t.self /\ exc' = t.exc /\ NoteRead(t, FALSE)
    /\ prev' = gen /\ Did("get_toc")
    /\ UNCHANGED <<arg_slides, slides, bundle, notToc>>

(* generator.toc = value                                                   *)
SetToc ==
    /\ LET r == set_toc(gen, <<>>)
       IN  gen' = r.self /\ exc' = r.exc
    /\ prev' = gen /\ Did("set_toc")
    /\ UNCHANGED <<arg_slides, slides, bundle, first_read, last_read, notToc>>


----------------------------------------------------------------------------
(* The macro stage.  A macro class is [name, isMacro, ctor, process,       *)
(* classes]: whether constructing it and whether its process() return or   *)
(* raise, and the classes process() returns.  A content is the sequence of *)
(* the body followed by the names of the macros that transformed it.       *)
MaxMacros == 2      \* macros registered on top of the default ones

MacroClass(n, c, p, cl) ==
    [name |-> n, isMacro |-> TRUE, ctor |-> c, process |-> p, classes |-> cl]

(* Generator.default_macros; the six classes live in macro.py.             *)
default_macros ==
    << MacroClass("CodeHighlightingMacro", "ok", "ok", <<>>),
       MacroClass("EmbedImagesMacro", "ok", "ok", <<>>),
       MacroClass("FixImagePathsMacro", "ok", "ok", <<>>),
       MacroClass("FxMacro", "ok", "ok", <<"fx">>),
       MacroClass("NotesMacro", "ok", "ok", <<"has_notes">>),
       MacroClass("QRMacro", "ok", "ok", <<>>) >>

(* What a caller may hand to register_macro.                               *)
UserMacros ==
    { MacroClass("Good", "ok", "ok", <<"good">>),
      MacroClass("BadCtor", "raise", "ok", <<"badctor">>),
      MacroClass("BadProcess", "ok", "raise", <<"badprocess">>),
      [name |-> "NotAMacro", isMacro |-> FALSE, ctor |-> "ok", process |-> "ok",
       classes |-> <<>>] }

Contents == {<<"x">>, <<"y">>}

(* log: a logger that is set and not callable raises ValueError; the       *)
(* message reaches the logger when verbose and a logger is set.            *)
log(lg, vb, sink, message) ==
    IF lg = "invalid" THEN [exc |-> "ValueError", sink |-> sink]
    ELSE IF vb /\ lg = "callable" THEN [exc |-> "none", sink |-> Append(sink, message)]
    ELSE [exc |-> "none", sink |-> sink]

(* register_macro, for one argument.                                       *)
register_macro(ms, m) ==
    IF m.isMacro THEN [macros |-> Append(ms, m), exc |-> "none"]
    ELSE [macros |-> ms, exc |-> "TypeError"]

(* The except clause of process_macros: the message names the local        *)
(* `macro`, which is unbound when the first construction of the call       *)
(* raised, and the last macro constructed otherwise.                       *)
MacroFailed(st, lg, vb) ==
    IF st.macro = <<>> THEN [st EXCEPT !.exc = "UnboundLocalError"]
    ELSE LET l == log(lg, vb, st.sink, st.macro[1])
         IN  [st EXCEPT !.exc = l.exc, !.sink = l.sink]

(* One iteration of the loop of process_macros, for macro_class mc.        *)
MacroStep(st, mc, lg, vb) ==
    IF mc.ctor = "raise" THEN MacroFailed(st, lg, vb)
    ELSE LET s1 == [st EXCEPT !.macro = <<mc.name>>]
         IN  IF mc.process = "raise" THEN MacroFailed(s1, lg, vb)
             ELSE [s1 EXCEPT !.content = Append(@, mc.name),
                             !.classes = @ \o mc.classes]

RECURSIVE MacroLoop(_, _, _, _, _)
MacroLoop(st, ms, i, lg, vb) ==
    IF i > Len(ms) \/ st.exc # "none" THEN st
    ELSE MacroLoop(MacroStep(st, ms[i], lg, vb), ms, i + 1, lg, vb)

(* process_macros(content, source)                                         *)
process_macros(ms, lg, vb, content) ==
    LET st == MacroLoop([content |-> content, classes |-> <<>>, macro |-> <<>>,
                         sink |-> <<>>, exc |-> "none"], ms, 1, lg, vb)
    IN  [exc |-> st.exc, sink |-> st.sink,
         content |-> IF st.exc = "none" THEN st.content ELSE <<>>,
         classes |-> IF st.exc = "none" THEN st.classes ELSE <<>>]

LoggerKinds == {"none", "callable", "invalid"}

MacroNone == [exc |-> "none", sink |-> <<>>, content |-> <<>>, classes |-> <<>>]

(* generator.register_macro(m)                                             *)
RegisterMacro ==
    \E m \in UserMacros :
        /\ Len(macros) < Len(default_macros) + MaxMacros
        /\ LET r == register_macro(macros, m)
           IN  macros' = r.macros /\ m_out' = [MacroNone EXCEPT !.exc = r.exc]
        /\ m_in' = <<>>
        /\ UNCHANGED <<logVars, notMacro>>

(* generator.process_macros(content), as get_slide_vars calls it for a     *)
(* slide whose content is not empty.                                       *)
ProcessMacros ==
    \E c \in Contents :
        /\ m_in' = c
        /\ m_out' = process_macros(macros, logger, verbose, c)
        /\ UNCHANGED <<macros, logVars, notMacro>>

----------------------------------------------------------------------------
(* Construction.  A path is the sequence of its characters.                *)
EndsWith(s, suffix) ==
    /\ Len(s) >= Len(suffix)
    /\ SubSeq(s, Len(s) - Len(suffix) + 1, Len(s)) = suffix

DotHtml == <<".", "h", "t", "m", "l">>
DotPdf  == <<".", "p", "d", "f">>

(* DEFAULT_DESTINATION, and the default of line 69: 'presentation.html'    *)
DEFAULT_DESTINATION == <<"p">> \o DotHtml

Destinations ==
    { <<"o">> \o DotHtml, <<"o">> \o DotPdf, <<"o", ".", "t", "x", "t">>,
      <<"h", "t", "m", "l">>, <<"o">> \o DotHtml \o <<"~">> }

Opt(S) == {<<>>} \cup {<<x>> : x \in S}

(* The arguments of Generator(source, **kwargs) and what the file system   *)
(* and the .cfg file answer during construction.  The verbose, debug,      *)
(* embed, encoding, extensions and theme arguments are left at their       *)
(* defaults.                                                               *)
CtorArgs ==
    [source : {"missing", "file", "cfg"},
     destination_file : Opt(Destinations),
     direct : Opt(BOOLEAN),
     logger : LoggerKinds,
     cfg_destination : Opt(Destinations),
     dest_is_dir : BOOLEAN,
     theme_found : BOOLEAN]

Unbuilt ==
    [done |-> FALSE, exc |-> "none", destination_file |-> <<>>, file_type |-> "",
     embed |-> FALSE]

(* self.destination_file = kwargs.get('direct', 'presentation.html')       *)
(* The value is a path, [str |-> path], or the value of `direct`,          *)
(* [bool |-> b].                                                           *)
InitialDestination(k) ==
    IF k.direct # <<>> THEN [bool |-> k.direct[1]]
    ELSE [str |-> DEFAULT_DESTINATION]

(* Lines 92-104: a .cfg source replaces the destination; parse_config      *)
(* logs, which raises with a logger that is not callable.                  *)
AfterConfig(k, dest) ==
    IF k.source # "cfg" THEN [exc |-> "none", dest |-> dest, embed |-> FALSE]
    ELSE IF k.logger = "invalid" THEN [exc |-> "ValueError", dest |-> dest, embed |-> FALSE]
    ELSE [exc |-> "none", embed |-> FALSE,
          dest |-> IF k.cfg_destination # <<>> THEN [str |-> k.cfg_destination[1]]
                   ELSE [str |-> DEFAULT_DESTINATION]]

(* Lines 106-119: the destination checks.  os.path.exists of a bool raises *)
(* TypeError.                                                              *)
CheckDestination(k, dest) ==
    IF "bool" \in DOMAIN dest THEN [exc |-> "TypeError", file_type |-> "", embed |-> FALSE]
    ELSE IF k.dest_is_dir THEN [exc |-> "IOError", file_type |-> "", embed |-> FALSE]
    ELSE IF EndsWith(dest.str, DotHtml) THEN [exc |-> "none", file_type |-> "html", embed |-> FALSE]
    ELSE IF EndsWith(dest.str, DotPdf) THEN [exc |-> "none", file_type |-> "pdf", embed |-> TRUE]
    ELSE [exc |-> "IOError", file_type |-> "", embed |-> FALSE]

(* Generator.__init__                                                      *)
construct(k) ==
    LET d0 == InitialDestination(k)
        c  == AfterConfig(k, d0)
        t  == CheckDestination(k, c.dest)
        failed(e, d) == [done |-> TRUE, exc |-> e, destination_file |-> <<d>>,
                         file_type |-> "", embed |-> FALSE]
    IN  IF k.source = "missing" THEN failed("IOError", d0)
        ELSE IF c.exc # "none" THEN failed(c.exc, d0)
        ELSE IF t.exc # "none" THEN failed(t.exc, c.dest)
        ELSE IF ~k.theme_found THEN failed("IOError", c.dest)
        ELSE [done |-> TRUE, exc |-> "none", destination_file |-> <<c.dest>>,
              file_type |-> t.file_type, embed |-> t.embed]

(* Generator(source, **kwargs)                                             *)
Construct ==
    \E k \in CtorArgs :
        /\ ~built.done
        /\ kwargs' = <<k>>
        /\ built' = construct(k)
        /\ fetched' = FALSE
        /\ logger' = k.logger
        /\ verbose' = (k.direct = <<TRUE>>)
        /\ UNCHANGED notCtor

(* generator.render(): the template is read, then fetch_contents runs.     *)
Render ==
    /\ built.done /\ built.exc = "none"
    /\ fetched' = TRUE
    /\ UNCHANGED <<kwargs, built, logVars, notCtor>>

----------------------------------------------------------------------------
(* The walker.  A file name is the sequence of its character codes; a      *)
(* path is the sequence of the names below the source directory (<<>>).    *)
(* fs maps each directory path to its entries [name, kind] in the order    *)
(* os.listdir returns them.  A kind is "dir" or what reading the file      *)
(* gives: "md" parses into three fragments, the second one blank, "bin"    *)
(* has an extension without parser, "bad" does not decode.                 *)
MaxNodes   == 3     \* files and directories in the source tree
MaxDepth   == 2     \* levels of directories, the source directory included
MaxSources == 2     \* entries of a list of sources

Names == {<<1>>, <<1, 2>>, <<2>>}
FileKinds == {"md", "bin", "bad"}
DirPaths == UNION {[1..n -> Names] : n \in 0..(MaxDepth - 1)}

Front(s) == SubSeq(s, 1, Len(s) - 1)

(* What the parser and the split on <hr> give for a file: each fragment    *)
(* as the groups of get_slide_vars's match, content stripped.              *)
FragmentsOf(kind) ==
    << [title |-> <<"B">>, level |-> <<2>>, content |-> <<>>],
       [title |-> <<>>, level |-> <<>>, content |-> <<>>],
       [title |-> <<>>, level |-> <<>>, content |-> <<"y">>] >>

EntryNamed(f, p) ==
    {k \in 1..Len(f[Front(p)]) : f[Front(p)][k].name = Last(p)}

(* os.path.isdir and what opening the file gives.                          *)
KindOf(f, p) ==
    IF p = <<>> THEN "dir"
    ELSE IF Front(p) \notin DOMAIN f \/ EntryNamed(f, p) = {} THEN "missing"
    ELSE f[Front(p)][CHOOSE k \in EntryNamed(f, p) : TRUE].kind

(* str < str: by the first character that differs, a proper prefix first.  *)
RECURSIVE NameLess(_, _)
NameLess(a, b) ==
    IF a = <<>> THEN b # <<>>
    ELSE IF b = <<>> THEN FALSE
    ELSE IF a[1] # b[1] THEN a[1] < b[1]
    ELSE NameLess(Tail(a), Tail(b))

RECURSIVE Insert(_, _)
Insert(sorted, x) ==
    IF sorted = <<>> THEN <<x>>
    ELSE IF NameLess(x, sorted[1]) THEN <<x>> \o sorted
    ELSE <<sorted[1]>> \o Insert(Tail(sorted), x)

RECURSIVE SortFrom(_, _)
SortFrom(entries, k) ==
    IF k = 0 THEN <<>> ELSE Insert(SortFrom(entries, k - 1), entries[k])

(* entries.sort()                                                          *)
NoSort(entries) == entries

Sort(entries) == SortFrom(entries, Len(entries))

(* os.listdir(source)                                                      *)
listdir(f, p) == [k \in 1..Len(f[p]) |-> f[p][k].name]

(* get_slide_vars, from the groups of its match on: the macros run on a    *)
(* content that is not empty, and the fragment is a slide when it has a    *)
(* header or a content.                                                    *)
get_slide_vars(e, frag, source) ==
    LET m == IF frag.content # <<>>
             THEN process_macros(e.macros, e.logger, e.verbose, frag.content)
             ELSE [MacroNone EXCEPT !.content = frag.content]
    IN  IF m.exc # "none" THEN [exc |-> m.exc, ret |-> <<>>]
        ELSE IF frag.title # <<>> \/ m.content # <<>>
        THEN [exc |-> "none",
              ret |-> <<[title |-> frag.title, level |-> frag.level,
                         content |-> m.content, classes |-> m.classes,
                         source |-> source]>>]
        ELSE [exc |-> "none", ret |-> <<>>]

RECURSIVE SlidesOf(_, _, _, _)
SlidesOf(e, frags, source, acc) ==
    IF frags = <<>> \/ acc.exc # "none" THEN acc
    ELSE LET g == get_slide_vars(e, frags[1], source)
         IN  SlidesOf(e, Tail(frags), source,
                      IF g.exc # "none" THEN [acc EXCEPT !.exc = g.exc]
                      ELSE [acc EXCEPT !.slides = Append(@, g.ret)])

Raised(x) == [exc |-> x, slides |-> <<>>]

(* The undecodable file of lines 223-225: logged, no slide.                *)
UndecodableRaises(e, source) == Raised("UnicodeDecodeError")

Undecodable(e, source) == [exc |-> log(e.logger, e.verbose, <<>>, "warning").exc,
                           slides |-> <<>>]

(* The file branch of fetch_contents, lines 212-229, up to `if not slides`.*)
(* ret: the NotImplementedError of Parser returns at once.                 *)
FetchFile(e, source) ==
    LET kind == KindOf(e.fs, source)
        adding == log(e.logger, e.verbose, <<>>, "notice")
    IN  IF kind = "bin" THEN [exc |-> "none", slides |-> <<>>, ret |-> TRUE]
        ELSE IF adding.exc # "none" THEN Raised(adding.exc) @@ [ret |-> TRUE]
        ELSE IF kind = "missing" THEN Raised("IOError") @@ [ret |-> TRUE]
        ELSE IF kind = "bad" THEN Undecodable(e, source) @@ [ret |-> FALSE]
        ELSE SlidesOf(e, FragmentsOf(kind), source, Raised("none")) @@ [ret |-> FALSE]

(* if not slides: self.log("Exiting ...")                                  *)
Exiting(e, r) ==
    IF r.exc = "none" /\ r.slides = <<>>
    THEN [r EXCEPT !.exc = log(e.logger, e.verbose, <<>>, "notice").exc]
    ELSE r

(* fetch_contents(source): source is a list of sources, [list |-> TRUE,    *)
(* items |-> the paths], or one path, [list |-> FALSE, path |-> it].       *)
(* FetchEach is the loop `for entry in ...: slides.extend(...)`.           *)
PathSource(p) == [list |-> FALSE, path |-> p, items |-> <<>>]
ListSource(ps) == [list |-> TRUE, path |-> <<>>, items |-> ps]

RECURSIVE fetch_contents(_, _)
RECURSIVE FetchEach(_, _, _)
FetchEach(e, paths, acc) ==
    IF paths = <<>> \/ acc.exc # "none" THEN acc
    ELSE LET r == fetch_contents(e, PathSource(paths[1]))
         IN  FetchEach(e, Tail(paths),
                       IF r.exc # "none" THEN Raised(r.exc)
                       ELSE [acc EXCEPT !.slides = @ \o r.slides])

fetch_contents(e, source) ==
    IF source.list
    THEN Exiting(e, FetchEach(e, source.items, Raised("none")))
    ELSE IF KindOf(e.fs, source.path) = "dir"
    THEN LET entering == log(e.logger, e.verbose, <<>>, "notice")
             entries  == Sort(listdir(e.fs, source.path))
         IN  IF entering.exc # "none" THEN Raised(entering.exc)
             ELSE Exiting(e, FetchEach(e, [k \in 1..Len(entries) |->
                                              Append(source.path, entries[k])],
                                       Raised("none")))
    ELSE LET r == FetchFile(e, source.path)
             s == [exc |-> r.exc, slides |-> r.slides]
         IN  IF r.ret THEN s ELSE Exiting(e, s)

----------------------------------------------------------------------------
IsDir(f, p) == p \in DOMAIN f /\ KindOf(f, p) = "dir"

InsertAt(s, k, x) == SubSeq(s, 1, k - 1) \o <<x>> \o SubSeq(s, k, Len(s))

(* The paths of the tree's files and directories.                          *)
NodePaths(f) ==
    UNION {{Append(p, f[p][k].name) : k \in 1..Len(f[p])} : p \in DOMAIN f}

Env == [fs |-> fs, macros |-> macros, logger |-> logger, verbose |-> verbose]

(* The environment: a file or a directory appears in the source tree, at   *)
(* any place of its directory's native order.                              *)
CreateEntry ==
    /\ walk_out = <<>>
    /\ Cardinality(NodePaths(fs)) < MaxNodes
    /\ \E p \in {q \in DirPaths : IsDir(fs, q)} :
         \E n \in Names \ {fs[p][j].name : j \in 1..Len(fs[p])},
            kind \in FileKinds \cup {"dir"},
            k \in 1..(Len(fs[p]) + 1) :
           /\ kind = "dir" => Len(p) + 1 < MaxDepth
           /\ fs' = [fs EXCEPT ![p] = InsertAt(@, k, [name |-> n, kind |-> kind])]
    /\ walk_src' = <<>> /\ walk_out' = <<>>
    /\ UNCHANGED notWalk

(* The entries of the source directory.                                   *)
TopPaths(f) == {<<f[<<>>][k].name>> : k \in 1..Len(f[<<>>])}

(* What fetch_contents is called with: the source directory, a file or a   *)
(* directory of the tree, or a list of entries of the source directory.    *)
Sources(f) ==
    {PathSource(p) : p \in {<<>>} \cup NodePaths(f)}
    \cup {ListSource(ps) : ps \in {qs \in UNION {[1..n -> TopPaths(f)] :
                                                      n \in 0..MaxSources} :
                                      \A i, j \in 1..Len(qs) : qs[i] = qs[j] => i = j}}

(* generator.fetch_contents(source)                                        *)
FetchContents ==
    /\ walk_out = <<>>
    /\ \E src \in Sources(fs) :
          /\ walk_src' = <<src>>
          /\ walk_out' = <<fetch_contents(Env, src)>>
    /\ UNCHANGED <<fs, notWalk>>

----------------------------------------------------------------------------
(* The specifications: one per part of the Generator.  Init is a freshly   *)
(* constructed Generator (lines 68-82) over an empty source directory,     *)
(* with the logger and the verbosity it was given.                         *)
InitWith(loggers, verbosities) ==
    /\ gen = Gen0 /\ arg_slides = <<>> /\ slides = <<>> /\ bundle = <<>>
    /\ exc = "none" /\ ops = <<"init", "init">> /\ prev = Gen0
    /\ first_read = <<>> /\ last_read = <<>>
    /\ macros = default_macros /\ m_in = <<>> /\ m_out = MacroNone
    /\ kwargs = <<>> /\ built = Unbuilt /\ fetched = FALSE
    /\ fs = [p \in DirPaths |-> <<>>] /\ walk_src = <<>> /\ walk_out = <<>>
    /\ logger \in loggers /\ verbose \in verbosities

Init == InitWith({"none"}, {FALSE})

InitMacro == InitWith(LoggerKinds, BOOLEAN)

InitWalk == InitWith({"none", "invalid"}, {FALSE})

NextToc == AddTocEntry \/ ReadToc \/ SetToc

SpecToc == Init /\ [][NextToc]_vars

NextPipeline == GetTemplateVars \/ ReadToc \/ SetToc

SpecPipeline == Init /\ [][NextPipeline]_vars

NextMacro == RegisterMacro \/ ProcessMacros

SpecMacro == InitMacro /\ [][NextMacro]_vars

NextCtor == Construct \/ Render

SpecCtor == Init /\ [][NextCtor]_vars

NextWalk == CreateEntry \/ FetchContents

SpecWalk == InitWalk /\ [][NextWalk]_vars

Spec == SpecPipeline

----------------------------------------------------------------------------
(* Claims about the numbering pass and the table of contents.              *)

Called == ops[2] = "get_template_vars"

(* The number of records among the first i items of the list passed.       *)
Rank(i) == Cardinality({j \in 1..i : arg_slides[j] # <<>>})

(* C1: get_template_vars on a fresh Generator, given N items of which K    *)
(* are absent, numbers exactly the N-K records 1, 2, ..., N-K in the order *)
(* of the list, leaves the absent items absent and unnumbered, counts N-K  *)
(* slides, and reports that count in the bundle it returns.                *)
C1_Numbering ==
    (Called /\ prev = Gen0) =>
        /\ Len(slides) = Len(arg_slides)
        /\ \A i \in 1..Len(arg_slides) :
              IF arg_slides[i] = <<>> THEN slides[i] = <<>>
              ELSE /\ slides[i] # <<>>
                   /\ slides[i][1].number = <<Rank(i)>>
                   /\ slides[i][1].title = arg_slides[i][1].title
                   /\ slides[i][1].level = arg_slides[i][1].level
        /\ gen.num_slides = Rank(Len(arg_slides))
        /\ bundle # <<>> => bundle[1].num_slides = <<Rank(Len(arg_slides))>>

C1_Witness ==
    /\ Called /\ prev = Gen0 /\ bundle # <<>>
    /\ Len(arg_slides) = 3 /\ arg_slides[2] = <<>>
    /\ gen.num_slides = 2

(* The record of slides[i] as a TOC entry that was never read.             *)
EntryOf(i) ==
    [title |-> slides[i][1].title, number |-> slides[i][1].number[1],
     level |-> slides[i][1].level[1]]

Logged(toc) ==
    [k \in 1..Len(toc) |->
        [title |-> toc[k].title, number |-> toc[k].number, level |-> toc[k].level]]

RECURSIVE EligibleFrom(_)
EligibleFrom(i) ==
    IF i > Len(slides) THEN <<>>
    ELSE IF slides[i] # <<>> /\ slides[i][1].level \in {<<1>>, <<2>>}
    THEN <<EntryOf(i)>> \o EligibleFrom(i + 1)
    ELSE EligibleFrom(i + 1)

(* C10: for every list of slides passed to get_template_vars, the records  *)
(* of level 1 or 2, and only they, are logged as TOC entries, each with    *)
(* the number of its slide, and the TOC is built from the log without an   *)
(* error.                                                                  *)
C10_TocTotal ==
    Called =>
        /\ Logged(gen.toc) = Logged(prev.toc) \o EligibleFrom(1)
        /\ exc = "none"

(* The title of the first record of the list passed, when it has one.      *)
FirstPresent ==
    {i \in 1..Len(arg_slides) :
        arg_slides[i] # <<>> /\ \A j \in 1..(i - 1) : arg_slides[j] = <<>>}

ExpectedHeadTitle ==
    IF FirstPresent = {} THEN <<Placeholder>>
    ELSE LET r == arg_slides[CHOOSE i \in FirstPresent : TRUE][1]
         IN  IF r.title = <<>> THEN <<Placeholder>> ELSE r.title

(* C4: the head title of the bundle is the title of the first record that  *)
(* is present, and the placeholder when there is no record or that record  *)
(* has no title.                                                           *)
C4_HeadTitle ==
    (Called /\ bundle # <<>>) => bundle[1].head_title = ExpectedHeadTitle

LatestRead == IF last_read # <<>> THEN last_read[1] ELSE first_read[1]

Levels(toc) == [k \in 1..Len(toc) |-> toc[k].level]

(* The list that holds entry i: 0 for the root list, j for the 'sub' list  *)
(* of entry j.                                                             *)
HoldersOf(root, toc, i) ==
    {0 : k \in {k \in 1..Len(root) : root[k] = i}}
    \cup {j \in 1..Len(toc) : \E k \in 1..Len(toc[j].sub) : toc[j].sub[k] = i}

Shallower(toc, i) == {j \in 1..(i - 1) : toc[j].level < toc[i].level}

RECURSIVE MaxOf(_)
MaxOf(S) == LET x == CHOOSE y \in S : TRUE
            IN  IF S = {x} THEN x ELSE Max(x, MaxOf(S \ {x}))

(* C2: for every flat sequence of entries, a read of toc gives a tree that *)
(* holds each entry once, lists them in insertion order when parents are   *)
(* taken before children, and puts each entry in the 'sub' list of the     *)
(* latest earlier entry of a smaller level (the root list at level 1).     *)
C2_TreeMirrorsLevels ==
    ops[2] = "get_toc" =>
        /\ exc = "none"
        /\ Preorder(LatestRead.root, gen.toc) = [k \in 1..Len(gen.toc) |-> k]
        /\ \A i \in 1..Len(gen.toc) :
              \/ gen.toc[i].level = 1 /\ HoldersOf(LatestRead.root, gen.toc, i) = {0}
              \/ /\ gen.toc[i].level > 1 /\ Shallower(gen.toc, i) # {}
                 /\ HoldersOf(LatestRead.root, gen.toc, i)
                       = {MaxOf(Shallower(gen.toc, i))}
              \/ gen.toc[i].level > 1 /\ Shallower(gen.toc, i) = {}

(* C3: for the levels 1, 2, 2, 1, 3 the build completes with the two       *)
(* entries of level 1 as roots, the two of level 2 under the first root,   *)
(* and the entry of level 3 below the second root, not as its child.       *)
C3_Example ==
    (ops[2] = "get_toc" /\ Levels(gen.toc) = <<1, 2, 2, 1, 3>>) =>
        /\ exc = "none"
        /\ LatestRead.root = <<1, 4>>
        /\ gen.toc[1].sub = <<2, 3>>
        /\ Preorder(<<4>>, gen.toc) = <<4, 5>>
        /\ gen.toc[4].sub # <<5>>

(* C9: reads of toc with no recording in between give the same outcome as  *)
(* the first one and leave the trees returned before as they were, and an  *)
(* assignment to toc raises and changes neither the recorded entries nor   *)
(* num_slides.                                                             *)
C9_StableReadOnly ==
    /\ (first_read # <<>> /\ last_read # <<>>) =>
          /\ last_read[1].exc = first_read[1].exc
          /\ last_read[1].value = first_read[1].value
    /\ (first_read # <<>> /\ first_read[1].exc = "none") =>
          Expand(first_read[1].root, gen.toc) = first_read[1].value
    /\ ops[2] = "set_toc" => (exc = "ValueError" /\ gen = prev)

C9_Witness ==
    /\ ops = <<"set_toc", "get_toc">>
    /\ gen.num_slides > 0
    /\ last_read # <<>> /\ last_read[1].exc = "none"
    /\ Len(last_read[1].value) = 1 /\ Len(last_read[1].value[1].sub) = 2

----------------------------------------------------------------------------
(* Claims about the macro stage.                                           *)

Healthy(mc) == mc.ctor = "ok" /\ mc.process = "ok"

RECURSIVE NamesOfHealthy(_)
NamesOfHealthy(ms) ==
    IF ms = <<>> THEN <<>>
    ELSE (IF Healthy(ms[1]) THEN <<ms[1].name>> ELSE <<>>) \o NamesOfHealthy(Tail(ms))

RECURSIVE ClassesOfHealthy(_)
ClassesOfHealthy(ms) ==
    IF ms = <<>> THEN <<>>
    ELSE (IF Healthy(ms[1]) THEN ms[1].classes ELSE <<>>) \o ClassesOfHealthy(Tail(ms))

(* C5: whatever macros are registered and whichever of them raise when     *)
(* constructed or when processing, process_macros returns, the content is  *)
(* the one the other macros produce in order, the failing ones leaving it  *)
(* as they received it, and the classes of the other macros all appear.    *)
C5_FaultIsolation ==
    m_in # <<>> =>
        /\ m_out.exc = "none"
        /\ m_out.content = m_in \o NamesOfHealthy(macros)
        /\ m_out.classes = ClassesOfHealthy(macros)

----------------------------------------------------------------------------
(* Claims about construction.                                              *)

BadDestination(d) == ~EndsWith(d, DotHtml) /\ ~EndsWith(d, DotPdf)

(* The destination the caller configured: the destination key of a .cfg    *)
(* source, the destination_file argument otherwise.                        *)
ConfiguredDestination(k) ==
    IF k.source = "cfg" THEN k.cfg_destination ELSE k.destination_file

(* C6: a Generator configured with a destination that ends in neither      *)
(* .html nor .pdf is not constructed: construction raises, and             *)
(* fetch_contents is never reached.                                        *)
C6_BadDestinationRejected ==
    (built.done /\ ConfiguredDestination(kwargs[1]) # <<>>
                /\ BadDestination(ConfiguredDestination(kwargs[1])[1]))
        => (built.exc # "none" /\ ~fetched)

----------------------------------------------------------------------------
(* Claims about the walker.                                                *)

Walked == walk_out # <<>>

(* What a slide shows of where it comes from: its file and its heading or  *)
(* body.                                                                   *)
Shape(sl) ==
    [k \in 1..Len(sl) |->
        IF sl[k] = <<>> THEN <<>>
        ELSE <<[source |-> sl[k][1].source,
                key |-> sl[k][1].title \o
                        (IF sl[k][1].content = <<>> THEN <<>>
                         ELSE <<sl[k][1].content[1]>>)]>>]

(* One slide or absence per fragment of a file, in the order of the        *)
(* fragments; nothing for a file that has no parser or does not decode.    *)
ExpectedOfFile(kind, path) ==
    IF kind = "md"
    THEN << <<[source |-> path, key |-> <<"B">>]>>, <<>>,
            <<[source |-> path, key |-> <<"y">>]>> >>
    ELSE <<>>

(* The names of a set, smallest first.                                     *)
RECURSIVE Ascending(_)
Ascending(S) ==
    IF S = {} THEN <<>>
    ELSE LET m == CHOOSE n \in S : \A o \in S \ {n} : NameLess(n, o)
         IN  <<m>> \o Ascending(S \ {m})

RECURSIVE ExpectedOfPath(_, _)
RECURSIVE ExpectedOfEach(_, _)
ExpectedOfEach(f, paths) ==
    IF paths = <<>> THEN <<>>
    ELSE ExpectedOfPath(f, paths[1]) \o ExpectedOfEach(f, Tail(paths))

ExpectedOfPath(f, p) ==
    IF KindOf(f, p) = "dir"
    THEN LET names == Ascending({f[p][k].name : k \in 1..Len(f[p])})
         IN  ExpectedOfEach(f, [k \in 1..Len(names) |-> Append(p, names[k])])
    ELSE ExpectedOfFile(KindOf(f, p), p)

(* C7: the slides of a directory are those of its entries taken by         *)
(* ascending name, recursively, whatever the order the file system lists   *)
(* them in; those of a list of sources are those of each source in listed  *)
(* order; those of a file follow its fragments, one slide or absence each. *)
C7_WalkOrder ==
    (Walked /\ walk_out[1].exc = "none") =>
        Shape(walk_out[1].slides) =
            IF walk_src[1].list THEN ExpectedOfEach(fs, walk_src[1].items)
            ELSE ExpectedOfPath(fs, walk_src[1].path)

C7_Witness ==
    /\ Walked /\ walk_out[1].exc = "none"
    /\ walk_src[1] = PathSource(<<>>)
    /\ Len(fs[<<>>]) = 2
    /\ NameLess(fs[<<>>][2].name, fs[<<>>][1].name)
    /\ fs[<<>>][1].kind = "md" /\ fs[<<>>][2].kind = "dir"
    /\ Len(walk_out[1].slides) = 6
    /\ walk_out[1].slides[1][1].source = <<fs[<<>>][2].name, fs[<<>>][1].name>>

Failing(kind) == kind \in {"bin", "bad"}

RECURSIVE WithoutFailing(_)
WithoutFailing(entries) ==
    IF entries = <<>> THEN <<>>
    ELSE (IF Failing(entries[1].kind) THEN <<>> ELSE <<entries[1]>>)
         \o WithoutFailing(Tail(entries))

(* The tree, and the source, without the files that have no parser or do   *)
(* not decode.                                                             *)
Cleaned(f) == [p \in DOMAIN f |-> WithoutFailing(f[p])]

RECURSIVE CleanedPaths(_, _)
CleanedPaths(f, paths) ==
    IF paths = <<>> THEN <<>>
    ELSE (IF Failing(KindOf(f, paths[1])) THEN <<>> ELSE <<paths[1]>>)
         \o CleanedPaths(f, Tail(paths))

(* C8: a file without parser or that does not decode gives no slide and    *)
(* no error, and the walk gives what it gives on the tree without that     *)
(* file.  (A logger that is not callable raises at the first message, for  *)
(* any file that has a parser, before the file is opened.)                 *)
C8_SoftFailures ==
    Walked =>
        IF ~walk_src[1].list /\ Failing(KindOf(fs, walk_src[1].path))
        THEN /\ walk_out[1].slides = <<>>
             /\ walk_out[1].exc = "none" \/ logger = "invalid"
        ELSE walk_out[1] =
                fetch_contents([Env EXCEPT !.fs = Cleaned(fs)],
                               [walk_src[1] EXCEPT
                                   !.items = CleanedPaths(fs, walk_src[1].items)])

C8_Witness ==
    /\ Walked /\ walk_out[1].exc = "none"
    /\ walk_src[1] = PathSource(<<>>)
    /\ Len(fs[<<>>]) = 3
    /\ fs[<<>>][1].kind = "md" /\ fs[<<>>][3].kind = "md"
    /\ fs[<<>>][2].kind = "bad"
    /\ NameLess(fs[<<>>][1].name, fs[<<>>][2].name)
    /\ NameLess(fs[<<>>][2].name, fs[<<>>][3].name)
    /\ Len(walk_out[1].slides) = 6

====
